---------------------------- MODULE Spec2Model ----------------------------
(***************************************************************************)
(* State-machine model of xfat.c: a read-only FAT32 reader built on one    *)
(* global volume context (static struct xfat xfat) and one host-owned      *)
(* sector buffer.  Operations: xfat_init (with read_bpb), read_sector,     *)
(* get_dentry / xfat_readfile, and the pure helper valid_cluster.          *)
(*                                                                         *)
(* xfat.c as it stands is an unfinished draft; where an identifier is not  *)
(* declared in the file the model reads it as the declared one that the    *)
(* surrounding code points at (each such reading is noted at its place).   *)
(***************************************************************************)
EXTENDS Integers, Sequences, FiniteSets, TLC

(***************************************************************************)
(* Bounds of the model.                                                    *)
(***************************************************************************)
NumSectors == 3   \* sectors 0 .. NumSectors-1 may be requested from the cache
MaxReqs    == 3   \* read_sector requests recorded in one behaviour
MaxPathLen == 3   \* characters in a path handed to xfat_readfile
MaxLen     == 2   \* largest offset and largest size handed to xfat_readfile

(***************************************************************************)
(* Program constants.                                                      *)
(***************************************************************************)
XFAT_PATHMAX == 128
NUL          == 0          \* the terminating byte of a C string

VARIABLES
    disk,       \* the boot sector on the medium, as its field values
    vol,        \* the rest of the medium: FAT entries and the one root file
    xfat,       \* static struct xfat xfat (with the bpb it decodes into)
    bufdata,    \* bytes now in the host's sector buffer
    bufsec,     \* {n} when bufdata holds sector n of the medium, {} when unknown
    prov_ret,   \* what the last Storage Provider read returned
    init_ret,   \* what the last xfat_init returned, NoCall before the first
    trace,      \* the read_sector requests so far: sector, reads issued, result
    rf,         \* the running xfat_readfile call: its arguments, locals, result
    dst,        \* the caller's destination buffer of xfat_readfile
    probe       \* valid_cluster's argument and its result

vars == <<disk, vol, xfat, bufdata, bufsec, prov_ret, init_ret, trace, rf, dst, probe>>

(***************************************************************************)
(* Unsigned arithmetic helpers.                                            *)
(***************************************************************************)
RECURSIVE BitAnd(_, _)
BitAnd(a, b) ==
    IF a = 0 \/ b = 0 THEN 0
    ELSE (IF a % 2 = 1 /\ b % 2 = 1 THEN 1 ELSE 0) + 2 * BitAnd(a \div 2, b \div 2)

Pow2_16 == 65536

\* v - 1 in uint32_t arithmetic; is_power_of_2 only uses it under v # 0
Dec32(v) == IF v = 0 THEN 0 ELSE v - 1

\* a variant that isolates the lowest set bit (v & -v): 512 for 512
RECURSIVE is_power_of_2_lowbit(_)
is_power_of_2_lowbit(v) ==
    IF v = 0 THEN 0
    ELSE IF v % 2 = 1 THEN 1 ELSE 2 * is_power_of_2_lowbit(v \div 2)

\* return v && !(v & (v - 1));   -- an int that is 0 or 1
is_power_of_2(v) == IF v # 0 /\ BitAnd(v, Dec32(v)) = 0 THEN 1 ELSE 0

(***************************************************************************)
(* Little-endian accessors on the sector buffer.  buf is the byte array of *)
(* the whole sector, base the address of its first byte modulo 8, and off  *)
(* the index of the byte read, so that base + off is the address the       *)
(* alignment tests look at.                                                *)
(***************************************************************************)
read_byte(buf, off) == buf[off]

\* both branches of read_half give the little-endian 16-bit value: the
\* aligned one reads it from memory on the little-endian cpu the file requires
read_half(buf, base, off) ==
    IF (base + off) % 4 # 0
    THEN (read_byte(buf, off) + 256 * read_byte(buf, off + 1)) % Pow2_16
    ELSE (buf[off] + 256 * buf[off + 1]) % Pow2_16

\* read_word keeps its result in a uint16_t: the unaligned branch ors the same
\* half shifted left by 16, the aligned one loads 32 bits, and either way only
\* the low 16 bits are returned.  (The operands are reduced before they are
\* multiplied to stay inside TLC's 32-bit integers; the result modulo 2^16
\* is the same.)
read_word(buf, base, off) ==
    IF (base + off) % 8 # 0
    THEN LET h == read_half(buf, base, off)
         IN  (h + Pow2_16 * (h % 32768)) % Pow2_16
    ELSE (buf[off] + 256 * buf[off + 1]
            + Pow2_16 * (buf[off + 2] + 256 * (buf[off + 3] % 128))) % Pow2_16

\* read_unaligned(dst, buf, offset, size): dispatch on sizeof(member)
read_unaligned(buf, base, off, size) ==
    IF size = 4 THEN read_word(buf, base, off)
    ELSE IF size = 2 THEN read_half(buf, base, off)
    ELSE read_byte(buf, off)

(***************************************************************************)
(* struct xfat32_bpb: member -> <<offset within the BPB, sizeof>>.         *)
(***************************************************************************)
BpbLayout ==
    [ sector_sz    |-> <<0, 2>>,  cluster_sz   |-> <<2, 1>>,
      nr_reserved  |-> <<3, 2>>,  nr_fats      |-> <<5, 1>>,
      nr_dirents   |-> <<6, 2>>,  nr_sectors16 |-> <<8, 2>>,
      media_type   |-> <<10, 1>>, fat_size16   |-> <<11, 2>>,
      track_size   |-> <<13, 2>>, nr_heads     |-> <<15, 2>>,
      nr_hidden    |-> <<17, 4>>, nr_sectors   |-> <<21, 4>>,
      fat_size     |-> <<25, 4>>, flags        |-> <<29, 2>>,
      version      |-> <<31, 2>>, cluster_root |-> <<33, 4>>,
      fs_info      |-> <<37, 2>>, boot_sector  |-> <<39, 2>> ]

BpbMembers == DOMAIN BpbLayout

BpbOffset == 11        \* ptr = xfat.buffer + 0x0b
SigOffset == 510       \* 0x1fe
LabelOffset == 82      \* 0x52
LabelFAT32 == <<70, 65, 84, 51, 50>>     \* "FAT32"
LabelFAT16 == <<70, 65, 84, 49, 54>>     \* "FAT16"

\* read_bpb_unit(bpb, member, ptr): the member's bytes start at ptr + offset.
\* The macro writes the offset as ((struct xfat32_bpb *)0)->member; it is read
\* here as the member's offset in the packed struct.
read_bpb_unit(buf, base, member) ==
    read_unaligned(buf, base, BpbOffset + BpbLayout[member][1], BpbLayout[member][2])

ZeroBpb == [m \in BpbMembers |-> 0]

(***************************************************************************)
(* The medium.  A boot sector is given by its field values; BootBytes lays *)
(* them out little-endian at the offsets of the on-disk format.            *)
(***************************************************************************)
\* the bytes of a sector that read_bpb looks at: the BPB at 0x0b .. 0x33, the
\* label at 0x52 .. 0x56 and the signature at 0x1fe, 0x1ff.  The other bytes
\* of the 512 are never read and are left out of the buffer's image.
Offsets ==
    (BpbOffset .. (BpbOffset + 40)) \cup (LabelOffset .. (LabelOffset + 4))
        \cup {SigOffset, SigOffset + 1}

RECURSIVE Pow256(_)
Pow256(n) == IF n = 0 THEN 1 ELSE 256 * Pow256(n - 1)

ByteOf(v, k) == (v \div Pow256(k)) % 256

BootBytes(d) ==
    [i \in Offsets |->
        IF i = SigOffset THEN ByteOf(d.sig, 0)
        ELSE IF i = SigOffset + 1 THEN ByteOf(d.sig, 1)
        ELSE IF i >= LabelOffset /\ i < LabelOffset + 5 THEN d.label[i - LabelOffset + 1]
        ELSE IF \E m \in BpbMembers :
                    /\ i >= BpbOffset + BpbLayout[m][1]
                    /\ i <  BpbOffset + BpbLayout[m][1] + BpbLayout[m][2]
             THEN LET m == CHOOSE n \in BpbMembers :
                                /\ i >= BpbOffset + BpbLayout[n][1]
                                /\ i <  BpbOffset + BpbLayout[n][1] + BpbLayout[n][2]
                  IN  ByteOf(d.bpb[m], i - BpbOffset - BpbLayout[m][1])
        ELSE 0]

\* the boot sectors tried: every combination of a good and a bad value of each
\* validated field
Images ==
    { [sig |-> sg, label |-> lb,
       bpb |-> [ZeroBpb EXCEPT !.sector_sz = ss, !.cluster_sz = cs,
                               !.nr_reserved = nr, !.nr_fats = nf,
                               !.media_type = mt, !.fat_size = fs,
                               !.cluster_root = 2, !.nr_sectors = 4096]] :
        sg \in {21930, 43605},             \* 0x55aa, 0xaa55
        lb \in {LabelFAT32, LabelFAT16},
        ss \in {512, 1024},
        cs \in {1, 3, 8},
        nr \in {0, 32},
        nf \in {2, 3},
        mt \in {248, 224},                 \* 0xf8, 0xe0
        fs \in {0, 1, 65536} }

BaseImage ==
    [sig |-> 21930, label |-> LabelFAT32,
     bpb |-> [ZeroBpb EXCEPT !.sector_sz = 512, !.cluster_sz = 1,
                             !.nr_reserved = 32, !.nr_fats = 2,
                             !.media_type = 248, !.fat_size = 1,
                             !.cluster_root = 2, !.nr_sectors = 4096]]

NoSector == {}
\* buffer contents that are not known: before the first read and after a
\* provider read that failed
Garbage == [i \in Offsets |-> 255]

\* the bytes of sector n of the medium
SectorData(d, n) == IF n = 0 THEN BootBytes(d) ELSE [i \in Offsets |-> n]

(***************************************************************************)
(* Storage providers.  A host owns one sector buffer; base is the address  *)
(* of that buffer modulo 8.                                                *)
(***************************************************************************)
NULL == "NULL"
NullBuffer == [id |-> NULL, base |-> 0]
Hosts == { [id |-> "H1", buffer |-> [id |-> "B1", base |-> 0]],
           [id |-> "H2", buffer |-> [id |-> "B2", base |-> 5]] }
Host1 == CHOOSE h \in Hosts : h.id = "H1"
ProviderRets == {-5, 0}        \* read_sectors: negative on failure

\* struct xfat as the loader leaves it: static storage is zeroed
ZeroXfat ==
    [ slba |-> 0, elba |-> 0, host |-> NULL, buffer |-> NullBuffer,
      cur_sector |-> 0, root_cluster |-> 0, cluster_sz |-> 0,
      cluster_begins |-> 0, nr_fats |-> 0, data_sector |-> 0,
      nr_sectors |-> 0, sz_fat |-> 0, bpb |-> ZeroBpb ]

(***************************************************************************)
(* read_bpb, after its provider read succeeded: decode, then validate.     *)
(***************************************************************************)
\* lines 186-203: every member is stored before anything is checked
decode_bpb(buf, base) == [m \in BpbMembers |-> read_bpb_unit(buf, base, m)]

\* memcmp(xfat.buffer + 0x52, "FAT32", 5): zero when the five bytes agree
memcmp_label(buf) ==
    IF \A k \in 1 .. 5 : buf[LabelOffset + k - 1] = LabelFAT32[k] THEN 0 ELSE 1

\* lines 205-222: the checks, in order; -1 on the first that fails
validate_bpb(buf, base, bpb) ==
    IF read_half(buf, base, SigOffset) # 21930 THEN -1
    ELSE IF memcmp_label(buf) # 0 THEN -1
    ELSE IF is_power_of_2(bpb.sector_sz) # 512 THEN -1
    ELSE IF is_power_of_2(bpb.cluster_sz) = 0 THEN -1
    ELSE IF bpb.nr_reserved < 1 THEN -1
    ELSE IF bpb.nr_fats # 1 /\ bpb.nr_fats # 2 THEN -1
    ELSE IF bpb.media_type < 229 THEN -1
    ELSE IF bpb.fat_size = 0 THEN -1
    ELSE 0

\* what falling off the end of an int function may hand the caller
UndefinedRets == {-1, 0, 1}

\* a result slot: empty before the call returns, <<r>> once it returned r
NoCall == << >>
Returned(r) == <<r>>

(***************************************************************************)
(* xfat_init(lba, nr_sectors, host).  pr is what the provider's read of    *)
(* sector 0 returns.  host and buffer are stored first; read_bpb then      *)
(* reads the boot sector straight into xfat.buffer (not through            *)
(* read_sector, so cur_sector is not touched), decodes and validates.      *)
(* On success the function ends without a return statement.                *)
(***************************************************************************)
xfat_init(host, pr) ==
    /\ rf.pc \in {"idle", "done"}
    /\ prov_ret' = Returned(pr)
    /\ IF pr < 0
       THEN /\ xfat' = [xfat EXCEPT !.host = host.id, !.buffer = host.buffer]
            /\ bufdata' = Garbage
            /\ bufsec' = NoSector
            /\ init_ret' = Returned(pr)
       ELSE LET buf == SectorData(disk, 0)
                bpb == decode_bpb(buf, host.buffer.base)
                ret == validate_bpb(buf, host.buffer.base, bpb)
            IN  /\ xfat' = [xfat EXCEPT !.host = host.id, !.buffer = host.buffer,
                                        !.bpb = bpb]
                /\ bufdata' = buf
                /\ bufsec' = {0}
                /\ init_ret' \in {Returned(r) :
                                    r \in (IF ret < 0 THEN {ret} ELSE UndefinedRets)}
    /\ UNCHANGED <<disk, vol, trace, rf, dst, probe>>

(***************************************************************************)
(* read_sector(sector).  pr is what the provider returns if it is called.  *)
(* The call is written host->read_sectors(xgpt.host, xgpt.buffer, lba, 1)  *)
(* with no xgpt and no lba declared in the file; it is read as the one     *)
(* sector `sector` into xfat.buffer through xfat.host.  A failed read      *)
(* returns -1 and leaves cur_sector as it was.                             *)
(***************************************************************************)
\* a variant that forgets to record the sector just read
cur_sector_stale(cur, sector, pr) == cur

\* xfat.cur_sector after a provider read that returned pr
cur_sector_after(cur, sector, pr) == IF pr < 0 THEN cur ELSE sector

read_sector(sector, pr) ==
    /\ xfat.host # NULL
    /\ Len(trace) < MaxReqs
    /\ IF xfat.cur_sector # sector
       THEN /\ prov_ret' = Returned(pr)
            /\ xfat' = [xfat EXCEPT !.cur_sector = cur_sector_after(@, sector, pr)]
            /\ IF pr < 0
               THEN /\ bufdata' = Garbage
                    /\ bufsec' = NoSector
               ELSE /\ bufdata' = SectorData(disk, sector)
                    /\ bufsec' = {sector}
            /\ trace' = Append(trace, [sector |-> sector, hit |-> FALSE, reads |-> 1,
                                       nr |-> 1, ret |-> IF pr < 0 THEN -1 ELSE 0,
                                       held |-> bufsec'])
       ELSE /\ trace' = Append(trace, [sector |-> sector, hit |-> TRUE, reads |-> 0,
                                       nr |-> 0, ret |-> 0, held |-> bufsec])
            /\ UNCHANGED <<xfat, bufdata, bufsec, prov_ret>>
    /\ UNCHANGED <<disk, vol, init_ret, rf, dst, probe>>

(***************************************************************************)
(* Paths are C strings: a sequence of character codes followed by NUL.     *)
(***************************************************************************)
Slash == 47
Backslash == 92
FileName == <<65>>          \* "A"
Alphabet == {Slash, Backslash} \cup {FileName[k] : k \in 1 .. Len(FileName)}

RECURSIVE SeqsUpTo(_, _)
SeqsUpTo(S, n) ==
    IF n = 0 THEN {<< >>}
    ELSE LET shorter == SeqsUpTo(S, n - 1)
         IN  shorter \cup {Append(q, c) : q \in {r \in shorter : Len(r) = n - 1}, c \in S}

Paths == SeqsUpTo(Alphabet, MaxPathLen)

\* *p for a pointer p into the string: index 1 is the first character
CharAt(path, p) == IF p <= Len(path) THEN path[p] ELSE NUL

is_delimeter(c) == IF c = Slash \/ c = Backslash THEN 1 ELSE 0

(***************************************************************************)
(* The medium behind the boot sector: the FAT (cluster -> entry) and one   *)
(* file "A" in the root directory.  Neither get_dentry nor xfat_readfile   *)
(* as written reads any of it.                                             *)
(***************************************************************************)
Clusters == 2 .. 3          \* the root directory starts at 2, the file at 3
ChainEnd == {268435455}     \* 0x0FFFFFFF, an end-of-chain entry
FileBytes == <<72, 73>>     \* the content of /A
Volumes ==
    { [fat |-> f, root |-> 2, name |-> FileName, start |-> 3,
       size |-> Len(FileBytes), data |-> FileBytes] :
        f \in [Clusters -> Clusters \cup ChainEnd] }

\* the chain from cluster c comes back to a cluster it has visited
RECURSIVE ChainCycles(_, _, _)
ChainCycles(fat, c, seen) ==
    IF c \notin Clusters THEN FALSE
    ELSE IF c \in seen THEN TRUE
    ELSE ChainCycles(fat, fat[c], seen \cup {c})

\* path names the file: delimiters, then the name, then nothing
RECURSIVE StripDelims(_)
StripDelims(path) ==
    IF path # << >> /\ is_delimeter(Head(path)) = 1 THEN StripDelims(Tail(path))
    ELSE path

NamesFile(path, v) == StripDelims(path) = v.name

(***************************************************************************)
(* xfat_readfile(filepath, buf, offset, size) and the get_dentry it calls, *)
(* one step per loop test.  rf.pc is the line about to be executed.        *)
(***************************************************************************)
IdleRf ==
    [ pc |-> "idle", path |-> << >>, offset |-> 0, size |-> 0,
      s |-> 1, e |-> 1, iter |-> [cluster |-> 0, sector |-> -1], cluster |-> 0,
      gd_ret |-> NoCall, ret |-> NoCall ]

\* line 269-274 and 238-245: the call, get_dentry's locals initialised
rf_call(path, offset, size) ==
    /\ rf.pc = "idle"
    /\ xfat.host # NULL
    /\ rf' = [ pc |-> "L249", path |-> path, offset |-> offset, size |-> size,
               s |-> 1, e |-> 1,
               iter |-> [cluster |-> xfat.root_cluster, sector |-> -1],
               cluster |-> xfat.root_cluster,
               gd_ret |-> NoCall, ret |-> NoCall ]
    /\ UNCHANGED <<disk, vol, xfat, bufdata, bufsec, prov_ret, init_ret, trace, dst, probe>>

\* line 249-250: while (*s && is_delimeter(*s)) s++;
gd_skip ==
    /\ rf.pc = "L249"
    /\ IF CharAt(rf.path, rf.s) # NUL /\ is_delimeter(CharAt(rf.path, rf.s)) = 1
       THEN rf' = [rf EXCEPT !.s = @ + 1]
       ELSE rf' = [rf EXCEPT !.pc = "L252"]
    /\ UNCHANGED <<disk, vol, xfat, bufdata, bufsec, prov_ret, init_ret, trace, dst, probe>>

\* line 252-255: if (!(*s)) return -1;  e = s;
gd_end ==
    /\ rf.pc = "L252"
    /\ IF CharAt(rf.path, rf.s) = NUL
       THEN rf' = [rf EXCEPT !.gd_ret = Returned(-1), !.pc = "L276"]
       ELSE rf' = [rf EXCEPT !.e = rf.s, !.pc = "L256"]
    /\ UNCHANGED <<disk, vol, xfat, bufdata, bufsec, prov_ret, init_ret, trace, dst, probe>>

\* line 256-257: while (*e && !is_delimeter(*e)) e++;
gd_scan ==
    /\ rf.pc = "L256"
    /\ IF CharAt(rf.path, rf.e) # NUL /\ is_delimeter(CharAt(rf.path, rf.e)) = 0
       THEN rf' = [rf EXCEPT !.e = @ + 1]
       ELSE rf' = [rf EXCEPT !.pc = "L260"]
    /\ UNCHANGED <<disk, vol, xfat, bufdata, bufsec, prov_ret, init_ret, trace, dst, probe>>

\* line 260-264: the body that should find the dentry for s ~ e.  The test
\* iter.sector >= xfat.cluster_sz guards a block that stops at `if (`: it
\* stores nothing, and neither branch moves s, so the while (1) starts over
gd_find ==
    /\ rf.pc = "L260"
    /\ IF rf.iter.sector >= xfat.cluster_sz
       THEN rf' = [rf EXCEPT !.pc = "L249"]
       ELSE rf' = [rf EXCEPT !.pc = "L249"]
    /\ UNCHANGED <<disk, vol, xfat, bufdata, bufsec, prov_ret, init_ret, trace, dst, probe>>

\* line 276-278: if (ret < 0) return -1; and then the end of the function,
\* with no range check, no copy into buf and no return value
rf_return ==
    /\ rf.pc = "L276"
    /\ rf' \in { [rf EXCEPT !.pc = "done", !.ret = Returned(r)] :
                    r \in (IF rf.gd_ret[1] < 0 THEN {-1} ELSE UndefinedRets) }
    /\ UNCHANGED <<disk, vol, xfat, bufdata, bufsec, prov_ret, init_ret, trace, dst, probe>>

(***************************************************************************)
(* valid_cluster(clust) on a uint32_t.  A 32-bit value is kept as its top  *)
(* four bits hi and its low 28 bits lo: value = hi * 2^28 + lo.  The       *)
(* source line ends at `clust <= 0xffffff`.                                *)
(***************************************************************************)
U32Ge(c, n) == c.hi > 0 \/ c.lo >= n           \* c >= n, for n < 2^28
U32Le(c, n) == c.hi = 0 /\ c.lo <= n           \* c <= n, for n < 2^28

\* return !!(clust >= 2 && clust <= 0xffffff
valid_cluster(clust) == IF U32Ge(clust, 2) /\ U32Le(clust, 16777215) THEN 1 ELSE 0

ProbeValues ==
    { [hi |-> h, lo |-> l] :
        h \in 0 .. 15,
        l \in {0, 1, 2, 3, 16777215, 16777216, 268435439, 268435440,
               268435446, 268435447, 268435448, 268435455} }

clust_probe ==
    /\ probe.valid = NoCall
    /\ probe' = [probe EXCEPT !.valid = Returned(valid_cluster(probe.v))]
    /\ UNCHANGED <<disk, vol, xfat, bufdata, bufsec, prov_ret, init_ret, trace, rf, dst>>

(***************************************************************************)
(* Specifications.                                                         *)
(***************************************************************************)
DstInit == [i \in 1 .. MaxLen |-> 0]
BaseVolume == CHOOSE v \in Volumes : \A c \in Clusters : v.fat[c] \in ChainEnd
ProbeIdle == [v |-> [hi |-> 0, lo |-> 2], valid |-> NoCall]

InitState ==
    /\ xfat = ZeroXfat
    /\ bufdata = Garbage
    /\ bufsec = NoSector
    /\ prov_ret = NoCall
    /\ init_ret = NoCall
    /\ trace = << >>
    /\ rf = IdleRf
    /\ dst = DstInit

\* mounting, over every boot sector of Images
InitMount == InitState /\ disk \in Images /\ vol = BaseVolume /\ probe = ProbeIdle
NextMount == \E h \in Hosts, pr \in ProviderRets : xfat_init(h, pr)
SpecMount == InitMount /\ [][NextMount]_vars

\* the sector cache, with mounts in between
InitCache == InitState /\ disk = BaseImage /\ vol = BaseVolume /\ probe = ProbeIdle
NextCache ==
    \/ \E pr \in ProviderRets : xfat_init(Host1, pr)
    \/ \E sector \in 0 .. (NumSectors - 1), pr \in ProviderRets : read_sector(sector, pr)
SpecCache == InitCache /\ [][NextCache]_vars

\* path resolution and file reads
InitPath == InitState /\ disk = BaseImage /\ vol \in Volumes /\ probe = ProbeIdle
NextPath ==
    \/ \E h \in Hosts : xfat_init(h, 0)
    \/ \E path \in Paths, offset \in 0 .. MaxLen, size \in 0 .. MaxLen :
            rf_call(path, offset, size)
    \/ gd_skip
    \/ gd_end
    \/ gd_scan
    \/ gd_find
    \/ rf_return
SpecPath == InitPath /\ [][NextPath]_vars

\* a call that has started keeps executing: the processor takes the next step
\* of the running function whenever there is one
RunStep == gd_skip \/ gd_end \/ gd_scan \/ gd_find \/ rf_return
FairSpecPath == SpecPath /\ WF_vars(RunStep)

\* valid_cluster on the values of ProbeValues
InitClust ==
    /\ InitState /\ disk = BaseImage /\ vol = BaseVolume
    /\ probe \in {[v |-> x, valid |-> NoCall] : x \in ProbeValues}
NextClust == clust_probe
SpecClust == InitClust /\ [][NextClust]_vars

(***************************************************************************)
(* Properties.                                                             *)
(***************************************************************************)
PowersOfTwo8 == {1, 2, 4, 8, 16, 32, 64, 128}

\* the boot sector passes every check of the format, computed from the field
\* values on the medium and not through the decoder
WellFormed(d) ==
    /\ d.sig = 21930
    /\ d.label = LabelFAT32
    /\ d.bpb.sector_sz = 512
    /\ d.bpb.cluster_sz \in PowersOfTwo8
    /\ d.bpb.nr_reserved >= 1
    /\ d.bpb.nr_fats \in {1, 2}
    /\ d.bpb.media_type >= 229
    /\ d.bpb.fat_size # 0

Defective(d) ==
    \/ d.sig # 21930
    \/ d.label # LabelFAT32
    \/ d.bpb.sector_sz # 512
    \/ d.bpb.cluster_sz \notin PowersOfTwo8
    \/ d.bpb.nr_fats \notin {1, 2}

MountReturned == init_ret # NoCall /\ prov_ret = Returned(0)

\* C1: a mount whose boot-sector read succeeds on a well-formed boot sector
\* returns success, and the geometry in the volume context equals the values
\* of that BPB, with data_sector = nr_reserved + nr_fats * fat_size.
C1_WellFormedMounts ==
    (MountReturned /\ WellFormed(disk)) =>
        /\ init_ret = Returned(0)
        /\ xfat.cluster_sz = disk.bpb.cluster_sz
        /\ xfat.nr_fats = disk.bpb.nr_fats
        /\ xfat.sz_fat = disk.bpb.fat_size
        /\ xfat.root_cluster = disk.bpb.cluster_root
        /\ xfat.data_sector =
                disk.bpb.nr_reserved + disk.bpb.nr_fats * disk.bpb.fat_size

\* C2: a mount whose boot-sector read succeeds on a boot sector with a wrong
\* signature, a wrong label, a sector size other than 512, a cluster size that
\* is no power of two or a FAT count outside {1, 2} returns the validation
\* error -1; one such defect with every other field well-formed is enough.
C2_DefectFailsMount ==
    (MountReturned /\ Defective(disk)) => init_ret = Returned(-1)

\* the only defect is the cluster size 3, and the mount has failed
C2_Witness ==
    /\ MountReturned
    /\ disk = [BaseImage EXCEPT !.bpb.cluster_sz = 3]
    /\ init_ret = Returned(-1)

\* C9: a mount that fails leaves the volume context as it was before the call:
\* no geometry field, decoded BPB field, provider or buffer reference changes.
C9_FailedMountKeepsState ==
    [][((\E h \in Hosts, pr \in ProviderRets : xfat_init(h, pr)) /\ init_ret'[1] < 0)
            => xfat' = xfat]_vars

C8_HitOnlyAfterGoodRead ==
    /\ \A i \in 1 .. Len(trace) : trace[i].hit => trace[i].held = {trace[i].sector}
    /\ \A i \in 1 .. (Len(trace) - 1) : trace[i].ret < 0 => ~trace[i + 1].hit

\* C10: valid_cluster accepts exactly the 28-bit cluster references
\* 2 .. 0x0FFFFFEF.
C10_ValidClusterRange ==
    (probe.valid # NoCall /\ probe.v.hi = 0) =>
        (probe.valid = Returned(1) <=> (probe.v.lo >= 2 /\ probe.v.lo <= 268435439))

\* the call of xfat_readfile has started / has returned
Called == rf.pc = "L249" /\ rf.s = 1
Done == rf.pc = "done"
Failed == Done /\ rf.ret # NoCall /\ rf.ret[1] < 0

\* the chain of cluster c ends at an end-of-chain entry without a repeat
WellFormedChain(c) == ~ChainCycles(vol.fat, c, {})

\* C3: a read of an existing file with offset + size within the file's size,
\* on a well-formed chain, returns size with the file's bytes
\* [offset, offset + size) in the destination buffer.
C3_ReadReturnsBytes ==
    (Called /\ NamesFile(rf.path, vol) /\ rf.offset + rf.size <= vol.size
        /\ WellFormedChain(vol.root) /\ WellFormedChain(vol.start))
    ~> (Done /\ rf.ret = Returned(rf.size)
            /\ \A k \in 1 .. rf.size : dst[k] = vol.data[rf.offset + k])

\* C4: a read of an existing file with offset + size beyond the file's size
\* fails; it does not return a shorter count.
C4_OutOfRangeFails ==
    (Called /\ NamesFile(rf.path, vol) /\ rf.offset + rf.size > vol.size)
    ~> Failed

\* C6: when the FAT chain of the root directory runs into a cycle, resolving a
\* path with a component to look up ends with an error.
C6_CycleEndsInError ==
    (Called /\ StripDelims(rf.path) # << >> /\ ChainCycles(vol.fat, vol.root, {}))
    ~> Failed

\* C7: every call of xfat_readfile, and the get_dentry inside it, returns.
C7_CallReturns == Called ~> Done

====
